---- MODULE Spec2Model ----
(***************************************************************************)
(* BoundsGenerator (harp-mapview/lib/BoundsGenerator.ts): the polygon of   *)
(* geographic coordinates a camera sees, on a planar or spherical          *)
(* projection.                                                             *)
(*                                                                         *)
(* The camera, the projections and the three.js primitives are consumed    *)
(* capabilities.  The camera is held as the answers it gives: the ground   *)
(* hit of every ray cast through it, the world position of its far plane   *)
(* corners, its frustum's containment and intersection tests.  Lengths are *)
(* in units of a quarter of the equatorial circumference, angles in        *)
(* degrees.                                                                *)
(***************************************************************************)
EXTENDS Integers, Sequences, FiniteSets, TLC

VARIABLES
    m_camera,            \* the held camera, as the answers of its raycasts
    m_projection,        \* the active projection
    tileWrappingEnabled, \* public flag
    m_groundPlane,       \* Plane(normal (0,0,1), constant 0)
    m_groundSphere,      \* Sphere(center origin, EQUATORIAL_RADIUS)
    ctorProjection,      \* history: the projection the constructor was given
    returned,            \* observation: outcome of the last generate() since
                         \* the camera, projection or flag last changed
    coordinates,         \* normalizeCoordinates: the array it is applied to
    original,            \* normalizeCoordinates: the array as first given
    normCalls,           \* normalizeCoordinates: applications so far
    calls                \* history: generate() calls since the last change

vars == <<m_camera, m_projection, tileWrappingEnabled, m_groundPlane,
          m_groundSphere, ctorProjection, returned, coordinates, original,
          normCalls, calls>>

None == "none"

(***************************************************************************)
(* Bounds of the model.                                                    *)
(***************************************************************************)
\* at most this many of the 8 far-plane side rays hit the sphere in a camera
MaxSideHits == 3
\* generate() calls counted since the camera, projection or flag changed
MaxCalls == 2
\* longest coordinate array given to normalizeCoordinates on its own
MaxLen == 3
\* applications of normalizeCoordinates to one array
MaxNormCalls == 2

(***************************************************************************)
(* Vectors (three.js Vector3, as integer triples).                         *)
(***************************************************************************)
Vec(x, y, z) == <<x, y, z>>

VecSub(a, b) == <<a[1] - b[1], a[2] - b[2], a[3] - b[3]>>

Sign(n) == IF n > 0 THEN 1 ELSE IF n < 0 THEN -1 ELSE 0

\* Vector3.normalize() of an axis-aligned vector
VecNormalizeAxis(a) == <<Sign(a[1]), Sign(a[2]), Sign(a[3])>>

(***************************************************************************)
(* Projections.                                                            *)
(***************************************************************************)
Planar == "Planar"
Spherical == "Spherical"

Projections == {"mercator", "sphere"}

ProjectionType(p) == IF p = "sphere" THEN Spherical ELSE Planar

\* EarthConstants.EQUATORIAL_CIRCUMFERENCE, in model length units
EQUATORIAL_CIRCUMFERENCE == 4

\* EarthConstants.EQUATORIAL_RADIUS, in model length units (sphere
\* directions below are given on the cube of this half-width)
EQUATORIAL_RADIUS == 1

GeoCoordinates(lat, lon, alt) ==
    [latitude |-> lat, longitude |-> lon, altitude |-> alt]

\* Mercator latitude of a world y, rounded to degrees, at the quarter
\* circumference grid (2*atan(exp((y/C - 1/2)*2*pi)) - pi/2)
MercatorLatitude(y) ==
    LET q == (4 * y) \div EQUATORIAL_CIRCUMFERENCE
    IN  CASE q <= -1 -> -89
          [] q = 0  -> -85
          [] q = 1  -> -66
          [] q = 2  -> 0
          [] q = 3  -> 66
          [] q = 4  -> 85
          [] OTHER  -> 89

\* atan2(y, x) in degrees for components in {-1, 0, 1}
Atan2Deg(y, x) ==
    CASE x > 0 /\ y = 0 -> 0
      [] x > 0 /\ y > 0 -> 45
      [] x = 0 /\ y > 0 -> 90
      [] x < 0 /\ y > 0 -> 135
      [] x < 0 /\ y = 0 -> 180
      [] x < 0 /\ y < 0 -> -135
      [] x = 0 /\ y < 0 -> -90
      [] x > 0 /\ y < 0 -> -45
      [] OTHER -> 0

\* asin(z / |v|) in degrees, rounded, for components in {-1, 0, 1}
AsinDeg(v) ==
    LET flat == (IF v[1] # 0 THEN 1 ELSE 0) + (IF v[2] # 0 THEN 1 ELSE 0)
        mag  == CASE flat = 0 -> 90 [] flat = 1 -> 45 [] OTHER -> 35
    IN  IF v[3] = 0 THEN 0 ELSE Sign(v[3]) * mag

\* Projection.unprojectPoint: world position -> geographic coordinates
UnprojectPoint(p, w) ==
    IF ProjectionType(p) = Planar
    THEN GeoCoordinates(MercatorLatitude(w[2]),
                        (360 * w[1]) \div EQUATORIAL_CIRCUMFERENCE - 180,
                        w[3])
    ELSE GeoCoordinates(AsinDeg(w), Atan2Deg(w[2], w[1]), 0)

\* Projection.worldExtent(0, 0) of a planar projection
WorldExtent(p) ==
    [min |-> Vec(0, 0, 0),
     max |-> Vec(EQUATORIAL_CIRCUMFERENCE, EQUATORIAL_CIRCUMFERENCE, 0)]

(***************************************************************************)
(* The camera.  A raycast's answer is a record: hit or not, and where.     *)
(***************************************************************************)
Miss == [hit |-> FALSE, at |-> Vec(0, 0, 0)]

Hit(v) == [hit |-> TRUE, at |-> v]

\* canvas corners in the order addCanvasCornerIntersection casts them
CanvasCorners == <<"ll", "ul", "ur", "lr">>

CornerKeys == {"ll", "ul", "ur", "lr"}

\* the rays cast through the camera: the canvas corners, the NDC origin and
\* the two ends of the horizon row
NdcKeys == CornerKeys \cup {"center", "hl", "hr"}

\* NDC x, y of a canvas corner
CornerNDC(k) ==
    CASE k = "ll" -> <<-1, -1>>
      [] k = "ul" -> <<-1, 1>>
      [] k = "ur" -> <<1, 1>>
      [] k = "lr" -> <<1, -1>>

FarPlaneSides == {"Bottom", "Right", "Top", "Left"}

\* the intersectSphere calls of the far-plane sides: side, first or second
SideRayKeys == FarPlaneSides \X {"ab", "ba"}

WorldCornerKeys == {"ne", "nw", "se", "sw"}

\* three.js Frustum.planes
FrustumPlanes == 1 .. 6

LineKeys == {"south", "north", "east", "west"}

RayKeys == {"seEast", "seWest", "neEast", "neWest"}

NoHorizon == [crosses |-> FALSE, y |-> 0]

HorizonAt(y) == [crosses |-> TRUE, y |-> y]

NoCut == [present |-> FALSE, edge |-> "south", plane |-> 1,
          at |-> Vec(0, 0, 0), close |-> FALSE]

Cut(e, pl, v, c) == [present |-> TRUE, edge |-> e, plane |-> pl,
                     at |-> v, close |-> c]

\* rotation of a world vector about the polar axis by a heading in degrees
Rot(h, v) ==
    CASE h = 0   -> v
      [] h = 90  -> Vec(-v[2], v[1], v[3])
      [] h = 180 -> Vec(-v[1], -v[2], v[3])
      [] OTHER   -> Vec(v[2], -v[1], v[3])

\* far-plane corner of NDC (x, y, 1) for a camera on the equator at
\* longitude h looking at the globe's centre, up = north
FarCornerOf(h, ndc) == Rot(h, Vec(-1, 2 * ndc[1], 2 * ndc[2]))

\* where the ray through a canvas corner meets the globe, if it does
GlobePointOf(h, ndc) == Rot(h, Vec(1, ndc[1], ndc[2]))

\* where a far-plane side ray meets the globe's limb, if it does
LimbPointOf(h, key) ==
    Rot(h, CASE key = <<"Bottom", "ab">> -> Vec(0, -1, -1)
             [] key = <<"Bottom", "ba">> -> Vec(0, 1, -1)
             [] key = <<"Right", "ab">>  -> Vec(0, 1, 1)
             [] key = <<"Right", "ba">>  -> Vec(0, 1, -1)
             [] key = <<"Top", "ab">>    -> Vec(0, -1, 1)
             [] key = <<"Top", "ba">>    -> Vec(0, 1, 1)
             [] key = <<"Left", "ab">>   -> Vec(0, -1, 1)
             [] OTHER                    -> Vec(0, -1, -1))

\* a camera that sees nothing: every ray misses, the frustum is empty
BlindCamera(h) ==
    [planeHit  |-> [k \in NdcKeys |-> Miss],
     sphereHit |-> [k \in NdcKeys |-> Miss],
     horizon   |-> NoHorizon,
     farCorner |-> [k \in CornerKeys |-> FarCornerOf(h, CornerNDC(k))],
     sideHit   |-> [k \in SideRayKeys |-> Miss],
     inFrustum |-> {},
     cut       |-> NoCut]

\* ground-plane hits on and around the border of the world rectangle
PlanePts ==
    LET C == EQUATORIAL_CIRCUMFERENCE
    IN  {Vec(0, C, 0), Vec(C, 0, 0), Vec(-1, 1, 0), Vec(C + 1, 1, 0),
         Vec(1, -1, 0), Vec(1, C + 1, 0)}

\* cameras over the planar world that differ in their canvas corner hits:
\* the left corners take every answer, the right corners miss, hit the
\* border of the world or hit west of it
PlaneCornerCams ==
    LET any  == {Miss} \cup {Hit(v) : v \in PlanePts}
        some == {Miss, Hit(Vec(EQUATORIAL_CIRCUMFERENCE, 0, 0)),
                 Hit(Vec(-1, 1, 0))}
    IN  {[BlindCamera(0) EXCEPT !.planeHit =
            [k \in NdcKeys |-> IF k \in CornerKeys THEN f[k] ELSE Miss]] :
          f \in {g \in [CornerKeys -> any] :
                    g["ur"] \in some /\ g["lr"] \in some}}

HorizonRows == {-1, 0, 1}

\* tilted cameras over the planar world: the bottom corners may hit, the
\* far plane's centerline crosses the ground at an NDC row
PlaneHorizonCams ==
    LET C == EQUATORIAL_CIRCUMFERENCE
    IN  {[BlindCamera(0) EXCEPT
            !.planeHit = [k \in NdcKeys |->
                CASE k = "ll" -> IF bl THEN Hit(Vec(1, 1, 0)) ELSE Miss
                  [] k = "lr" -> IF br THEN Hit(Vec(C - 1, 1, 0)) ELSE Miss
                  [] k = "hl" -> l
                  [] k = "hr" -> r
                  [] OTHER -> Miss],
            !.horizon = HorizonAt(y)] :
          bl \in BOOLEAN, br \in BOOLEAN, y \in HorizonRows,
          l \in {Miss, Hit(Vec(1, C - 1, 0)), Hit(Vec(-1, C - 1, 0))},
          r \in {Miss, Hit(Vec(C - 1, C - 1, 0)), Hit(Vec(C + 1, C - 1, 0))}}

\* the one frustum plane / world edge intersection a camera may have:
\* near the frustum or not, off the ground by rounding or not
CutOptions ==
    {NoCut} \cup
    {Cut(e, pl, Vec(1, 0, 1), c) :
        e \in {"south", "seEast"}, pl \in FrustumPlanes, c \in BOOLEAN} \cup
    {Cut(e, pl, Vec(2, EQUATORIAL_CIRCUMFERENCE, 0), TRUE) :
        e \in {"north", "neWest"}, pl \in {1, 6}} \cup
    {Cut(e, 3, Vec(0, 2, 0), TRUE) :
        e \in {"east", "west", "seWest", "neEast"}}

\* cameras high over the planar world: no canvas ray hits inside it, the
\* frustum contains world corners and cuts a world edge
PlaneFrustumCams ==
    {[BlindCamera(0) EXCEPT !.inFrustum = s, !.cut = c] :
        s \in SUBSET WorldCornerKeys, c \in CutOptions}

SphereHeadings == {0, 180}

SideHitSets(most) == {s \in SUBSET SideRayKeys : Cardinality(s) <= most}

\* a camera on the equator at longitude h looking at the globe: canvas
\* corners m hit it, the NDC origin hits it or not (t), far-plane side rays
\* s hit its limb
SphereCam(h, m, t, s) ==
    [BlindCamera(h) EXCEPT
        !.sphereHit = [k \in NdcKeys |->
            CASE k \in CornerKeys ->
                   IF k \in m THEN Hit(GlobePointOf(h, CornerNDC(k))) ELSE Miss
              [] k = "center" ->
                   IF t THEN Hit(GlobePointOf(h, <<0, 0>>)) ELSE Miss
              [] OTHER -> Miss],
        !.sideHit = [k \in SideRayKeys |->
            IF k \in s THEN Hit(LimbPointOf(h, k)) ELSE Miss]]

\* every set of corner hits with at most one side hit, and the globe below
\* the canvas or missed by it with up to MaxSideHits side hits
SphereCamsAt(h) ==
    {SphereCam(h, m, t, s) :
        m \in SUBSET CornerKeys, t \in BOOLEAN, s \in SideHitSets(1)} \cup
    {SphereCam(h, m, t, s) :
        m \in {{}, {"ll", "lr"}}, t \in BOOLEAN, s \in SideHitSets(MaxSideHits)}

SphereCams == UNION {SphereCamsAt(h) : h \in SphereHeadings}

\* cameras whose canvas lies inside the planar world, whatever else they
\* answer
PlaneFullViewCams ==
    LET C == EQUATORIAL_CIRCUMFERENCE
    IN  {[BlindCamera(0) EXCEPT
            !.planeHit = [k \in NdcKeys |->
                CASE k = "ll" -> Hit(Vec(1, 1, 0))
                  [] k = "ul" -> Hit(Vec(1, C - 1, 0))
                  [] k = "ur" -> Hit(Vec(C - 1, C - 1, 0))
                  [] k = "lr" -> Hit(Vec(C - 1, 1, 0))
                  [] k = "center" -> Hit(Vec(2, 2, 0))
                  [] OTHER -> Hit(Vec(2, C, 0))],
            !.horizon = h, !.inFrustum = s, !.cut = c] :
          h \in {NoHorizon, HorizonAt(1)}, s \in {{}, WorldCornerKeys},
          c \in {NoCut, Cut("south", 1, Vec(1, 0, 0), TRUE),
                 Cut("seEast", 1, Vec(1, 0, 0), TRUE)}}

Cameras == PlaneCornerCams \cup PlaneHorizonCams \cup PlaneFrustumCams
             \cup PlaneFullViewCams \cup SphereCams

(***************************************************************************)
(* Shared primitives.                                                      *)
(***************************************************************************)
\* MapViewUtils.rayCastWorldCoordinates({camera, projection}, x, y): the
\* ray through NDC (x, y) met with the ground surface of the projection
rayCastWorldCoordinates(cam, proj, key) ==
    IF ProjectionType(proj) = Planar
    THEN cam.planeHit[key]
    ELSE cam.sphereHit[key]

\* harp-utils assert(condition): whether the check fails
assertFails(condition) == ~condition

\* what generate() has done so far: the vertices pushed (with where each
\* came from), the NDC rays cast, the far-plane sides probed, the frustum
\* plane tests made
EmptyAcc == [added |-> <<>>, cast |-> <<>>, probes |-> <<>>, tested |-> <<>>]

Vertex(src, key, part, pl, w, geo) ==
    [src |-> src, key |-> key, part |-> part, plane |-> pl,
     world |-> w, geo |-> geo]

\* the GeoCoordinates array of an accumulation
CoordsOf(acc) == [i \in 1 .. Len(acc.added) |-> acc.added[i].geo]

isInVisibleMapExclusive(proj, wrap, point) ==
    IF ProjectionType(proj) = Planar
    THEN IF point[2] <= 0 \/ point[2] >= EQUATORIAL_CIRCUMFERENCE
         THEN FALSE
         ELSE IF ~wrap /\ (point[1] <= 0 \/ point[1] >= EQUATORIAL_CIRCUMFERENCE)
              THEN FALSE
              ELSE TRUE
    ELSE TRUE

isInVisibleMap(proj, wrap, point) ==
    IF ProjectionType(proj) = Planar
    THEN IF point[2] < 0 \/ point[2] > EQUATORIAL_CIRCUMFERENCE
         THEN FALSE
         ELSE IF ~wrap /\ (point[1] < 0 \/ point[1] > EQUATORIAL_CIRCUMFERENCE)
              THEN FALSE
              ELSE TRUE
    ELSE TRUE

validateAndAddToGeoPolygon(proj, wrap, key, point, acc) ==
    IF isInVisibleMap(proj, wrap, point)
    THEN [acc EXCEPT !.added =
            Append(@, Vertex("ndc", key, "", 0, point,
                             UnprojectPoint(proj, point)))]
    ELSE acc

RECURSIVE addNDCRayIntersection(_, _, _, _, _)
addNDCRayIntersection(cam, proj, wrap, ndcPoints, acc) ==
    IF ndcPoints = <<>>
    THEN acc
    ELSE LET corner == Head(ndcPoints)
             intersection == rayCastWorldCoordinates(cam, proj, corner)
             seen == [acc EXCEPT !.cast = Append(@, corner)]
             next == IF intersection.hit
                     THEN validateAndAddToGeoPolygon(proj, wrap, corner,
                                                     intersection.at, seen)
                     ELSE seen
         IN  addNDCRayIntersection(cam, proj, wrap, Tail(ndcPoints), next)

addCanvasCornerIntersection(cam, proj, wrap, acc) ==
    addNDCRayIntersection(cam, proj, wrap, CanvasCorners, acc)

\* the NDC row where the far plane's vertical centerline crosses the
\* ground plane (Plane.intersectLine, then Vector3.project(camera).y)
getVerticalHorizonPositionInNDC(cam, proj) ==
    IF ProjectionType(proj) # Planar
    THEN NoHorizon
    ELSE cam.horizon

\* `!verticalHorizonPosition`: undefined and 0 are both falsy
addHorizonIntersection(cam, proj, wrap, acc) ==
    IF ProjectionType(proj) = Planar
    THEN LET verticalHorizonPosition == getVerticalHorizonPositionInNDC(cam, proj)
         IN  IF ~verticalHorizonPosition.crosses \/ verticalHorizonPosition.y = 0
             THEN acc
             ELSE addNDCRayIntersection(cam, proj, wrap, <<"hl", "hr">>, acc)
    ELSE acc \* spherical branch: no caller reaches it (generateOnPlane only)

(***************************************************************************)
(* normalizeCoordinates and createPolygon.                                 *)
(***************************************************************************)
Longitudes(coords) == {coords[i].longitude : i \in 1 .. Len(coords)}

MinOf(S) == CHOOSE m \in S : \A n \in S : m <= n

MaxOf(S) == CHOOSE m \in S : \A n \in S : m >= n

ShiftNegativeLongitudesBy60(coords) ==
    [i \in 1 .. Len(coords) |->
        IF coords[i].longitude < 0
        THEN [coords[i] EXCEPT !.longitude = 60 + coords[i].longitude]
        ELSE coords[i]]

ShiftEveryLongitude(coords) ==
    [i \in 1 .. Len(coords) |->
        [coords[i] EXCEPT !.longitude = 360 + coords[i].longitude]]

\* lines 101-105: every negative longitude becomes 360 + longitude
ShiftNegativeLongitudes(coords) ==
    [i \in 1 .. Len(coords) |->
        IF coords[i].longitude < 0
        THEN [coords[i] EXCEPT !.longitude = 360 + coords[i].longitude]
        ELSE coords[i]]

LeavesLongitudesInclusive(cam, proj, minLongitude, maxLongitude) ==
    LET cameraTarget == rayCastWorldCoordinates(cam, proj, "center")
    IN  IF cameraTarget.hit
        THEN LET targetLongitude ==
                     UnprojectPoint(proj, cameraTarget.at).longitude
             IN  targetLongitude >= -90 /\ targetLongitude <= 90
        ELSE maxLongitude - minLongitude < 360 + minLongitude - maxLongitude

\* lines 92-99: whether normalizeCoordinates returns before the shift
LeavesLongitudes(cam, proj, minLongitude, maxLongitude) ==
    LET cameraTarget == rayCastWorldCoordinates(cam, proj, "center")
    IN  IF cameraTarget.hit
        THEN LET targetLongitude ==
                     UnprojectPoint(proj, cameraTarget.at).longitude
             IN  targetLongitude > -90 /\ targetLongitude < 90
        ELSE maxLongitude - minLongitude < 360 + minLongitude - maxLongitude

\* the array after normalizeCoordinates(coordinates); the minimum of no
\* longitudes is Infinity, which is >= 0
normalizeCoordinates(cam, proj, coords) ==
    IF coords = <<>>
    THEN coords
    ELSE LET minLongitude == MinOf(Longitudes(coords))
             maxLongitude == MaxOf(Longitudes(coords))
         IN  IF minLongitude >= 0 \/ maxLongitude < 0
             THEN coords
             ELSE IF LeavesLongitudes(cam, proj, minLongitude, maxLongitude)
                  THEN coords
                  ELSE ShiftNegativeLongitudes(coords)

Absent == [kind |-> "absent", coordinates |-> <<>>, sort |-> FALSE]

\* new GeoPolygon(coordinates, sort), as the arguments it is built from
GeoPolygon(coords, sort) ==
    [kind |-> "polygon", coordinates |-> coords, sort |-> sort]

createPolygonFromTwo(cam, proj, coords, sort, normalize) ==
    IF Len(coords) > 1
    THEN GeoPolygon(IF normalize
                    THEN normalizeCoordinates(cam, proj, coords)
                    ELSE coords,
                    sort)
    ELSE Absent

createPolygon(cam, proj, coords, sort, normalize) ==
    IF Len(coords) > 2
    THEN GeoPolygon(IF normalize
                    THEN normalizeCoordinates(cam, proj, coords)
                    ELSE coords,
                    sort)
    ELSE Absent

\* lines 160 and 204: all 4 canvas corners gave a vertex
CanvasCoveredNever(n) == n > 4

CanvasCovered(n) == n = 4

(***************************************************************************)
(* Spherical algorithm.                                                    *)
(***************************************************************************)
\* lines 114-131: the NDC far-plane corners of a side, counter-clockwise
SideCornerA(side) ==
    CASE side = "Bottom" -> "ll"
      [] side = "Right"  -> "ur"
      [] side = "Top"    -> "ul"
      [] side = "Left"   -> "ul"

SideCornerB(side) ==
    CASE side = "Bottom" -> "lr"
      [] side = "Right"  -> "lr"
      [] side = "Top"    -> "ur"
      [] side = "Left"   -> "ll"

Ray(origin, direction) == [origin |-> origin, direction |-> direction]

\* line 136: new Ray(cornerAWorld, cornerBWorld.sub(cornerAWorld)).
\* Vector3.sub works in place and returns its receiver: the direction is
\* the cornerBWorld object, which now holds B - A.
AbRay(cornerAWorld, cornerBWorld) ==
    Ray(cornerAWorld, VecSub(cornerBWorld, cornerAWorld))

\* line 142: new Ray(cornerBWorld, cornerAWorld.sub(cornerBWorld)), after
\* line 136 has overwritten cornerBWorld with B - A: the origin is the
\* overwritten cornerBWorld, the direction A - (B - A).
BaRay(cornerAWorld, cornerBWorld) ==
    LET cornerBWorldNow == VecSub(cornerBWorld, cornerAWorld)
    IN  Ray(cornerBWorldNow, VecSub(cornerAWorld, cornerBWorldNow))

PushSideHit(proj, side, part, intersection, acc) ==
    IF intersection.hit
    THEN [acc EXCEPT !.added =
            Append(@, Vertex("side", side, part, 0, intersection.at,
                             UnprojectPoint(proj, intersection.at)))]
    ELSE acc

\* the answers of Ray.intersectSphere are the camera's, by side and call
addFarPlaneSideIntersections(cam, proj, side, acc) ==
    LET cornerAWorld == cam.farCorner[SideCornerA(side)]
        cornerBWorld == cam.farCorner[SideCornerB(side)]
        abRay == AbRay(cornerAWorld, cornerBWorld)
        abIntersection == cam.sideHit[<<side, "ab">>]
        baRay == BaRay(cornerAWorld, cornerBWorld)
        baIntersection == cam.sideHit[<<side, "ba">>]
        probed == [acc EXCEPT !.probes =
                     Append(@, [side |-> side, a |-> cornerAWorld,
                                b |-> cornerBWorld, ab |-> abRay,
                                ba |-> baRay])]
    IN  PushSideHit(proj, side, "ba", baIntersection,
            PushSideHit(proj, side, "ab", abIntersection, probed))

\* line 166: the corner-hit count that seeds the horizon from the bottom
\* side of the far plane
ProbesBottomUpToTwo(n) == n <= 2

ProbesBottom(n) == n = 0

\* lines 173-175
RightTopLeft(cam, proj, acc) ==
    addFarPlaneSideIntersections(cam, proj, "Left",
      addFarPlaneSideIntersections(cam, proj, "Top",
        addFarPlaneSideIntersections(cam, proj, "Right", acc)))

\* [acc, threw]: the accumulation, and whether the no-roll check
\* assert(coordinates.length === 2) failed
findBoundsIntersectionsOnSphere(cam, proj, wrap) ==
    LET corners == addCanvasCornerIntersection(cam, proj, wrap, EmptyAcc)
        n == Len(corners.added)
    IN  IF CanvasCovered(n)
        THEN [acc |-> corners, threw |-> FALSE]
        ELSE IF ProbesBottom(n)
        THEN [acc |-> RightTopLeft(cam, proj,
                        addFarPlaneSideIntersections(cam, proj, "Bottom",
                                                     corners)),
              threw |-> FALSE]
        ELSE IF assertFails(n = 2)
        THEN [acc |-> corners, threw |-> TRUE]
        ELSE [acc |-> RightTopLeft(cam, proj, corners), threw |-> FALSE]

subdivideSides(coords) == coords

Outcome(poly, algorithm, acc) ==
    [kind |-> poly.kind, coordinates |-> poly.coordinates, sort |-> poly.sort,
     algorithm |-> algorithm, added |-> acc.added, cast |-> acc.cast,
     probes |-> acc.probes, tested |-> acc.tested]

\* generate() left by the failed check: nothing is returned
Thrown == [kind |-> "assertFailed", coordinates |-> <<>>, sort |-> FALSE]

NotCalled == Outcome([kind |-> None, coordinates |-> <<>>, sort |-> FALSE],
                     None, EmptyAcc)

generateOnSphere(cam, proj, wrap) ==
    LET found == findBoundsIntersectionsOnSphere(cam, proj, wrap)
        coords == subdivideSides(CoordsOf(found.acc))
    IN  IF found.threw
        THEN Outcome(Thrown, "sphere", found.acc)
        ELSE Outcome(createPolygon(cam, proj, coords, TRUE, TRUE),
                     "sphere", found.acc)

(***************************************************************************)
(* Planar algorithm.                                                       *)
(***************************************************************************)
getWorldConers(proj) ==
    LET worldBox == WorldExtent(proj)
    IN  [sw |-> worldBox.min,
         se |-> Vec(worldBox.max[1], worldBox.min[2], 0),
         nw |-> Vec(worldBox.min[1], worldBox.max[2], 0),
         ne |-> worldBox.max]

\* Frustum.containsPoint is the camera's answer, by world corner
addPointInFrustum(cam, proj, key, point, acc) ==
    IF key \in cam.inFrustum
    THEN [acc EXCEPT !.added =
            Append(@, Vertex("corner", key, "", 0, point,
                     [UnprojectPoint(proj, point) EXCEPT !.altitude = 0]))]
    ELSE acc

Edge(key, kind, a, b) == [key |-> key, kind |-> kind, a |-> a, b |-> b]

\* the intersection pushed without asking closeToFrustum
TestPlaneIgnoringClose(cam, proj, edge, pl, acc) ==
    LET tested == [acc EXCEPT !.tested =
                     Append(@, [edge |-> edge, plane |-> pl])]
        c == cam.cut
    IN  IF c.present /\ c.edge = edge.key /\ c.plane = pl
        THEN [tested EXCEPT !.added =
                Append(@, Vertex("edge", edge.key, "", pl, c.at,
                         [UnprojectPoint(proj, c.at) EXCEPT !.altitude = 0]))]
        ELSE tested

\* one frustum plane against one edge: the intersection and
\* MapViewUtils.closeToFrustum are the camera's answers
TestPlane(cam, proj, edge, pl, acc) ==
    LET tested == [acc EXCEPT !.tested =
                     Append(@, [edge |-> edge, plane |-> pl])]
        c == cam.cut
    IN  IF c.present /\ c.edge = edge.key /\ c.plane = pl /\ c.close
        THEN [tested EXCEPT !.added =
                Append(@, Vertex("edge", edge.key, "", pl, c.at,
                         [UnprojectPoint(proj, c.at) EXCEPT !.altitude = 0]))]
        ELSE tested

RECURSIVE ForEachPlane(_, _, _, _, _)
ForEachPlane(cam, proj, edge, pl, acc) ==
    IF pl \notin FrustumPlanes
    THEN acc
    ELSE ForEachPlane(cam, proj, edge, pl + 1,
                      TestPlane(cam, proj, edge, pl, acc))

addFrustumIntersection(cam, proj, edge, acc) ==
    ForEachPlane(cam, proj, edge, 1, acc)

\* lines 228-230
AddWorldCorners(cam, proj, wc, acc) ==
    addPointInFrustum(cam, proj, "sw", wc.sw,
      addPointInFrustum(cam, proj, "se", wc.se,
        addPointInFrustum(cam, proj, "nw", wc.nw,
          addPointInFrustum(cam, proj, "ne", wc.ne, acc))))

\* lines 239-246
AddWorldEdges(cam, proj, wc, acc) ==
    addFrustumIntersection(cam, proj, Edge("west", "Line3", wc.nw, wc.sw),
      addFrustumIntersection(cam, proj, Edge("east", "Line3", wc.se, wc.ne),
        addFrustumIntersection(cam, proj, Edge("north", "Line3", wc.ne, wc.nw),
          addFrustumIntersection(cam, proj,
                                 Edge("south", "Line3", wc.sw, wc.se), acc))))

\* lines 250-264
AddWorldRays(cam, proj, wc, acc) ==
    LET directionEast == VecNormalizeAxis(VecSub(wc.sw, wc.se))
        directionWest == VecNormalizeAxis(VecSub(wc.se, wc.sw))
    IN  addFrustumIntersection(cam, proj,
                               Edge("neWest", "Ray", wc.ne, directionWest),
          addFrustumIntersection(cam, proj,
                                 Edge("neEast", "Ray", wc.ne, directionEast),
            addFrustumIntersection(cam, proj,
                                   Edge("seWest", "Ray", wc.se, directionWest),
              addFrustumIntersection(cam, proj,
                                     Edge("seEast", "Ray", wc.se, directionEast),
                                     acc))))

generateOnPlane(cam, proj, wrap) ==
    LET corners == addCanvasCornerIntersection(cam, proj, wrap, EmptyAcc)
    IN  IF CanvasCovered(Len(corners.added))
        THEN Outcome(createPolygon(cam, proj, CoordsOf(corners), TRUE, FALSE),
                     "plane", corners)
        ELSE LET horizon == addHorizonIntersection(cam, proj, wrap, corners)
                 worldCorners == getWorldConers(proj)
                 inside == IF ~wrap
                           THEN AddWorldCorners(cam, proj, worldCorners, horizon)
                           ELSE horizon
                 edges == IF ~wrap
                          THEN AddWorldEdges(cam, proj, worldCorners, inside)
                          ELSE AddWorldRays(cam, proj, worldCorners, inside)
             IN  Outcome(createPolygon(cam, proj, CoordsOf(edges), TRUE, FALSE),
                         "plane", edges)

(***************************************************************************)
(* Public contract.                                                        *)
(***************************************************************************)
\* `this.m_projection` as generate() reads it
StaleProjection == ctorProjection

CurrentProjection == m_projection

generate(cam, proj, wrap) ==
    IF ProjectionType(proj) = Planar
    THEN generateOnPlane(cam, proj, wrap)
    ELSE generateOnSphere(cam, proj, wrap)

GroundPlane == [normal |-> Vec(0, 0, 1), constant |-> 0]

GroundSphere == [center |-> Vec(0, 0, 0), radius |-> EQUATORIAL_RADIUS]

Init ==
    /\ m_camera \in Cameras
    /\ m_projection \in Projections
    /\ ctorProjection = m_projection
    /\ tileWrappingEnabled \in BOOLEAN
    /\ m_groundPlane = GroundPlane
    /\ m_groundSphere = GroundSphere
    /\ returned = NotCalled
    /\ calls = 0
    /\ coordinates = <<>>
    /\ original = <<>>
    /\ normCalls = 0

\* set projection(projection)
SetProjection ==
    /\ \E p \in Projections : m_projection' = p
    /\ returned' = NotCalled
    /\ calls' = 0
    /\ UNCHANGED <<m_camera, tileWrappingEnabled, m_groundPlane,
                   m_groundSphere, ctorProjection, coordinates, original,
                   normCalls>>

\* the caller writes the public flag
SetTileWrapping ==
    /\ \E b \in BOOLEAN : tileWrappingEnabled' = b
    /\ returned' = NotCalled
    /\ calls' = 0
    /\ UNCHANGED <<m_camera, m_projection, m_groundPlane, m_groundSphere,
                   ctorProjection, coordinates, original, normCalls>>

\* views the caller moves the held camera to between calls
KeyFrames ==
    {BlindCamera(0)} \cup
    {SphereCam(180, CornerKeys, t, {}) : t \in BOOLEAN} \cup
    {c \in PlaneFrustumCams : c.inFrustum = WorldCornerKeys /\ ~c.cut.present}

\* the caller moves the camera
MoveCamera ==
    /\ \E c \in KeyFrames : m_camera' = c
    /\ returned' = NotCalled
    /\ calls' = 0
    /\ UNCHANGED <<m_projection, tileWrappingEnabled, m_groundPlane,
                   m_groundSphere, ctorProjection, coordinates, original,
                   normCalls>>

\* generate() translating the shared ground sphere in place
GenerateMovingGroundSphere ==
    /\ returned' = generate(m_camera, CurrentProjection, tileWrappingEnabled)
    /\ calls' = IF calls < MaxCalls THEN calls + 1 ELSE calls
    /\ m_groundSphere' = [m_groundSphere EXCEPT !.center = m_camera.farCorner["ll"]]
    /\ UNCHANGED <<m_camera, m_projection, tileWrappingEnabled, m_groundPlane,
                   ctorProjection, coordinates, original, normCalls>>

Generate ==
    /\ returned' = generate(m_camera, CurrentProjection, tileWrappingEnabled)
    /\ calls' = IF calls < MaxCalls THEN calls + 1 ELSE calls
    /\ UNCHANGED <<m_camera, m_projection, tileWrappingEnabled, m_groundPlane,
                   m_groundSphere, ctorProjection, coordinates, original,
                   normCalls>>

Next == SetProjection \/ SetTileWrapping \/ MoveCamera \/ Generate

Spec == Init /\ [][Next]_vars

(***************************************************************************)
(* normalizeCoordinates on its own: every coordinate array up to MaxLen,   *)
(* every look-at outcome, applied up to MaxNormCalls times in a row.       *)
(***************************************************************************)
\* cameras on the equator looking at the globe from the 4 quarters, whose
\* NDC origin ray hits the globe or misses it
LookAtCams ==
    {SphereCam(h, {}, t, {}) : h \in {0, 90, 180, 270}, t \in BOOLEAN}

GeoSamples ==
    {GeoCoordinates(-35, -135, 0), GeoCoordinates(45, -90, 0),
     GeoCoordinates(35, -45, 0), GeoCoordinates(0, 0, 0),
     GeoCoordinates(-45, 45, 0), GeoCoordinates(0, 90, 0),
     GeoCoordinates(35, 180, 0)}

CoordinateArrays == UNION {[1 .. n -> GeoSamples] : n \in 0 .. MaxLen}

InitNormalize ==
    /\ m_camera \in LookAtCams
    /\ m_projection = "sphere"
    /\ ctorProjection = "sphere"
    /\ tileWrappingEnabled = FALSE
    /\ m_groundPlane = GroundPlane
    /\ m_groundSphere = GroundSphere
    /\ returned = NotCalled
    /\ calls = 0
    /\ original \in CoordinateArrays
    /\ coordinates = original
    /\ normCalls = 0

\* this.normalizeCoordinates(coordinates): the array is changed in place
Normalize ==
    /\ normCalls < MaxNormCalls
    /\ coordinates' = normalizeCoordinates(m_camera, m_projection, coordinates)
    /\ normCalls' = normCalls + 1
    /\ UNCHANGED <<m_camera, m_projection, tileWrappingEnabled, m_groundPlane,
                   m_groundSphere, ctorProjection, returned, calls, original>>

NextNormalize == Normalize

SpecNormalize == InitNormalize /\ [][NextNormalize]_vars

(***************************************************************************)
(* Claims about generate().                                                *)
(***************************************************************************)
Called == calls >= 1

\* the canvas corners whose ray hits the ground surface of the projection
CornerHits ==
    {k \in CornerKeys : rayCastWorldCoordinates(m_camera, m_projection, k).hit}

\* C1 as stated: for every projection type, wrapping flag and combination
\* of hit/miss outcomes, generate() returns a polygon if and only if at
\* least 3 points were accumulated, and returns absent otherwise; no
\* polygon has fewer than 3 vertices.
C1_AlwaysPolygonOrAbsent ==
    Called =>
        /\ (returned.kind = "polygon") <=> (Len(returned.added) >= 3)
        /\ (returned.kind = "absent") <=> (Len(returned.added) < 3)
        /\ returned.kind = "polygon" => Len(returned.coordinates) >= 3

\* C1 amended: whenever generate() returns, i.e. the spherical no-roll
\* check did not fail, it returns a polygon if and only if at least 3
\* points were accumulated and absent otherwise; the polygon's vertices are
\* the accumulated points, never fewer than 3; the check fails only in
\* spherical mode with 1 or 3 corner hits.
C1_PolygonIffThreePointsWhenReturning ==
    Called =>
        /\ returned.kind \in {"polygon", "absent", "assertFailed"}
        /\ returned.kind # "assertFailed" =>
             /\ (returned.kind = "polygon") <=> (Len(returned.added) >= 3)
             /\ (returned.kind = "absent") <=> (Len(returned.added) < 3)
        /\ returned.kind = "polygon" =>
             /\ Len(returned.coordinates) = Len(returned.added)
             /\ Len(returned.coordinates) >= 3
        /\ returned.kind = "assertFailed" =>
             /\ ProjectionType(m_projection) = Spherical
             /\ Cardinality(CornerHits) \in {1, 3}

\* a polygon of exactly 3 vertices on the planar world
C1_Witness ==
    /\ Called
    /\ returned.kind = "polygon"
    /\ Len(returned.coordinates) = 3
    /\ ProjectionType(m_projection) = Planar

\* the 4 canvas corner hits pass the planar validation
AllCornersValid ==
    \A k \in CornerKeys :
        /\ m_camera.planeHit[k].hit
        /\ m_camera.planeHit[k].at[2] >= 0
        /\ m_camera.planeHit[k].at[2] <= EQUATORIAL_CIRCUMFERENCE
        /\ ~tileWrappingEnabled =>
             /\ m_camera.planeHit[k].at[1] >= 0
             /\ m_camera.planeHit[k].at[1] <= EQUATORIAL_CIRCUMFERENCE

\* C2: in planar mode, when all 4 canvas corner rays hit the ground plane
\* and pass validation, generate() returns a polygon of exactly those 4
\* points, built with the re-sort flag, and no horizon, world-corner or
\* world-edge point is added, for both values of tileWrappingEnabled.
C2_PlanarFullViewIsTheFourCorners ==
    (Called /\ ProjectionType(m_projection) = Planar /\ AllCornersValid) =>
        /\ returned.kind = "polygon"
        /\ returned.sort = TRUE
        /\ returned.coordinates =
             [i \in 1 .. 4 |->
                UnprojectPoint(m_projection,
                               m_camera.planeHit[CanvasCorners[i]].at)]
        /\ Len(returned.added) = 4
        /\ \A i \in 1 .. 4 : returned.added[i].src = "ndc"

\* wrapping enabled, a corner hit west of the world rectangle, and a camera
\* whose frustum holds world corners and cuts a world ray
C2_Witness ==
    /\ Called /\ ProjectionType(m_projection) = Planar /\ AllCornersValid
    /\ returned.kind = "polygon"
    /\ \/ /\ tileWrappingEnabled
          /\ \E k \in CornerKeys : m_camera.planeHit[k].at[1] < 0
       \/ /\ ~tileWrappingEnabled
          /\ m_camera.inFrustum = WorldCornerKeys
          /\ m_camera.cut.present

\* the canvas corner rays all hit the globe
AllCornersOnGlobe ==
    /\ ProjectionType(m_projection) = Spherical
    /\ \A k \in CornerKeys : m_camera.sphereHit[k].hit

GlobeCornerGeo(i) ==
    UnprojectPoint(m_projection, m_camera.sphereHit[CanvasCorners[i]].at)

\* C3 as stated: in spherical mode, when all 4 canvas corner rays hit the
\* sphere, generate() returns a polygon of exactly the geographic
\* coordinates of those 4 hits: no far-plane side point is added and no
\* coordinate differs from the unprojected hit.
C3_SphereFullViewIsTheFourHits ==
    (Called /\ AllCornersOnGlobe) =>
        /\ returned.kind = "polygon"
        /\ returned.probes = <<>>
        /\ returned.coordinates = [i \in 1 .. 4 |-> GlobeCornerGeo(i)]

\* C3 amended: ... returns a polygon of those 4 hits after the antimeridian
\* normalization: no far-plane side point is added, latitudes and altitudes
\* are those of the unprojected hits, and a longitude differs from the
\* unprojected hit only by the +360 shift of a negative longitude, applied
\* to all negative longitudes or to none.
C3_SphereFullViewIsTheFourHitsNormalized ==
    (Called /\ AllCornersOnGlobe) =>
        /\ returned.kind = "polygon"
        /\ returned.probes = <<>>
        /\ Len(returned.coordinates) = 4
        /\ \A i \in 1 .. 4 :
             /\ returned.coordinates[i].latitude = GlobeCornerGeo(i).latitude
             /\ returned.coordinates[i].altitude = GlobeCornerGeo(i).altitude
        /\ \/ \A i \in 1 .. 4 :
                returned.coordinates[i].longitude = GlobeCornerGeo(i).longitude
           \/ \A i \in 1 .. 4 :
                returned.coordinates[i].longitude =
                    IF GlobeCornerGeo(i).longitude < 0
                    THEN GlobeCornerGeo(i).longitude + 360
                    ELSE GlobeCornerGeo(i).longitude

\* a full view across the antimeridian, shifted, of a camera one of whose
\* far-plane side rays would hit the globe
C3_Witness ==
    /\ Called /\ AllCornersOnGlobe
    /\ returned.kind = "polygon"
    /\ \E i \in 1 .. 4 : returned.coordinates[i].longitude > 180
    /\ \E k \in SideRayKeys : m_camera.sideHit[k].hit

\* C4: each generate() call runs the planar algorithm exactly when the most
\* recently set projection (the constructor's if none was set) is Planar,
\* and the spherical algorithm otherwise.
C4_DispatchOnCurrentProjection ==
    Called =>
        /\ returned.algorithm \in {"plane", "sphere"}
        /\ (returned.algorithm = "plane") <=>
               (ProjectionType(m_projection) = Planar)

\* constructed planar, set to the sphere, then generated on the sphere
C4_Witness ==
    /\ Called
    /\ ProjectionType(ctorProjection) = Planar
    /\ ProjectionType(m_projection) = Spherical
    /\ returned.algorithm = "sphere"
    /\ returned.kind = "polygon"

C6_NdcHitAddedIffInVisibleMap ==
    Called =>
        \A i \in 1 .. Len(returned.cast) :
            LET k == returned.cast[i]
                h == rayCastWorldCoordinates(m_camera, m_projection, k)
                isAdded == \E j \in 1 .. Len(returned.added) :
                             /\ returned.added[j].src = "ndc"
                             /\ returned.added[j].key = k
                             /\ returned.added[j].world = h.at
                xInRange == h.at[1] >= 0 /\ h.at[1] <= EQUATORIAL_CIRCUMFERENCE
                yInRange == h.at[2] >= 0 /\ h.at[2] <= EQUATORIAL_CIRCUMFERENCE
            IN  h.hit =>
                  (isAdded <=>
                     CASE ProjectionType(m_projection) = Spherical -> TRUE
                       [] tileWrappingEnabled -> yInRange
                       [] OTHER -> xInRange /\ yInRange)

\* planar with wrapping: a hit west of the world rectangle is a vertex and
\* a hit north of it is not
C6_Witness ==
    /\ Called
    /\ ProjectionType(m_projection) = Planar
    /\ tileWrappingEnabled
    /\ \E j \in 1 .. Len(returned.added) :
         returned.added[j].src = "ndc" /\ returned.added[j].world[1] < 0
    /\ \E k \in CornerKeys :
         /\ m_camera.planeHit[k].hit
         /\ m_camera.planeHit[k].at[2] > EQUATORIAL_CIRCUMFERENCE
         /\ \A j \in 1 .. Len(returned.added) : returned.added[j].key # k

ProbedSides == [i \in 1 .. Len(returned.probes) |-> returned.probes[i].side]

\* C9: in spherical mode with fewer than 4 corner hits, the bottom side of
\* the far plane is probed if and only if the corner-hit count is 0; the
\* right, top and left sides are then probed in that order; a count of 1 or
\* 3 fails the consistency check, so generate() completes without a failed
\* check only when the count is 0, 2 or 4.
C9_SidesProbedByCornerCount ==
    (Called /\ ProjectionType(m_projection) = Spherical) =>
        LET n == Cardinality(CornerHits)
        IN  /\ (returned.kind = "assertFailed") <=> (n \in {1, 3})
            /\ (returned.kind # "assertFailed") <=> (n \in {0, 2, 4})
            /\ n = 0 => ProbedSides = <<"Bottom", "Right", "Top", "Left">>
            /\ n = 2 => ProbedSides = <<"Right", "Top", "Left">>
            /\ n \in {1, 3, 4} => ProbedSides = <<>>

\* no corner hit, the four sides probed, a polygon of 3 limb points
C9_Witness ==
    /\ Called /\ ProjectionType(m_projection) = Spherical
    /\ Cardinality(CornerHits) = 0
    /\ Len(returned.probes) = 4
    /\ returned.kind = "polygon"

\* C10: for each probed far-plane side with world-space corners A and B,
\* the two rays intersected with the ground sphere are (origin A,
\* direction B - A) and (origin B, direction A - B); the second ray is not
\* affected by the computation of the first.
C10_SideRaysRunFromEachCornerToTheOther ==
    Called =>
        \A i \in 1 .. Len(returned.probes) :
            LET p == returned.probes[i]
            IN  /\ p.a = m_camera.farCorner[SideCornerA(p.side)]
                /\ p.b = m_camera.farCorner[SideCornerB(p.side)]
                /\ p.ab = Ray(p.a, VecSub(p.b, p.a))
                /\ p.ba = Ray(p.b, VecSub(p.a, p.b))

(***************************************************************************)
(* Claims about normalizeCoordinates.                                      *)
(***************************************************************************)
HasNegative(coords) == \E i \in 1 .. Len(coords) : coords[i].longitude < 0

HasNonNegative(coords) == \E i \in 1 .. Len(coords) : coords[i].longitude >= 0

Straddles(coords) == HasNegative(coords) /\ HasNonNegative(coords)

\* C7: the normalization step is idempotent: applied to the output of a
\* first application (same camera and projection) it changes no longitude;
\* and it changes nothing when all longitudes are non-negative or all are
\* negative.
C7_NormalizeIsIdempotent ==
    [][/\ normCalls >= 1 => coordinates' = coordinates
       /\ ~Straddles(coordinates) => coordinates' = coordinates]_vars

\* a straddling array that the first application shifted and the second
\* left alone
C7_Witness ==
    /\ normCalls = 2
    /\ Straddles(original)
    /\ coordinates # original

\* the look-at point of the camera and its longitude
LookAt == rayCastWorldCoordinates(m_camera, m_projection, "center")

LookAtLongitude == UnprojectPoint(m_projection, LookAt.at).longitude

\* the array with every negative longitude shifted by +360, no
\* non-negative longitude and no latitude changed
Shifted(coords) ==
    [i \in 1 .. Len(coords) |->
        GeoCoordinates(coords[i].latitude,
                       IF coords[i].longitude < 0
                       THEN coords[i].longitude + 360
                       ELSE coords[i].longitude,
                       coords[i].altitude)]

\* C8 as stated: when the longitudes contain both a negative and a
\* non-negative value, every negative longitude is shifted by +360 unless
\* the look-at point has a longitude strictly between -90 and 90; the shift
\* is applied to all negative longitudes and to no non-negative one, and
\* latitudes are never changed.
C8_ShiftUnlessLookAtNearGreenwich ==
    (normCalls >= 1 /\ Straddles(original)) =>
        coordinates =
            IF LookAt.hit /\ LookAtLongitude > -90 /\ LookAtLongitude < 90
            THEN original
            ELSE Shifted(original)

\* the longitude span of an array
Span(coords) == MaxOf(Longitudes(coords)) - MinOf(Longitudes(coords))

\* C8 amended: ... every negative longitude is shifted by +360 unless the
\* look-at ray hits and the look-at point's longitude is strictly between
\* -90 and 90, or the look-at ray misses and the longitudes span less than
\* 180 degrees; the shift is applied to all negative longitudes and to no
\* non-negative one, and latitudes are never changed.
C8_ShiftUnlessLookAtNearGreenwichOrNarrow ==
    (normCalls >= 1 /\ Straddles(original)) =>
        coordinates =
            IF \/ LookAt.hit /\ LookAtLongitude > -90 /\ LookAtLongitude < 90
               \/ ~LookAt.hit /\ Span(original) < 180
            THEN original
            ELSE Shifted(original)

\* the look-at point is on the meridian 90 east: the negative longitudes
\* are shifted, the others and the latitudes are not
C8_Witness ==
    /\ normCalls >= 1
    /\ Straddles(original)
    /\ LookAt.hit /\ LookAtLongitude = 90
    /\ coordinates = Shifted(original)
    /\ coordinates # original

(***************************************************************************)
(* Claims about the planar algorithm past the 4-corner shortcut.           *)
(***************************************************************************)
\* the canvas corners whose hit became a vertex
ValidatedCorners ==
    {k \in CornerKeys :
        \E j \in 1 .. Len(returned.added) :
            returned.added[j].src = "ndc" /\ returned.added[j].key = k}

\* generate() ran the planar algorithm and did not take the shortcut
PastShortcut ==
    /\ Called
    /\ ProjectionType(m_projection) = Planar
    /\ Cardinality(ValidatedCorners) < 4

WasCast(k) == \E i \in 1 .. Len(returned.cast) : returned.cast[i] = k

\* C11: in planar mode with fewer than 4 validated corner hits, whenever
\* the far plane's vertical centerline crosses the ground plane at an NDC
\* row y, the two rays at (-1, y) and (1, y) are cast and their validated
\* hits added, for every y including y = 0; the horizon step is skipped
\* only when the centerline does not cross the ground plane.
C11_HorizonRaysCastWheneverCenterlineCrosses ==
    PastShortcut =>
        /\ m_camera.horizon.crosses <=> (WasCast("hl") /\ WasCast("hr"))
        /\ \A k \in {"hl", "hr"} :
             (/\ m_camera.horizon.crosses
              /\ m_camera.planeHit[k].hit
              /\ isInVisibleMap(m_projection, tileWrappingEnabled,
                                m_camera.planeHit[k].at)) =>
                 \E j \in 1 .. Len(returned.added) :
                     /\ returned.added[j].src = "ndc"
                     /\ returned.added[j].key = k
                     /\ returned.added[j].world = m_camera.planeHit[k].at

\* the corners of the world rectangle
RectCorner(k) ==
    LET C == EQUATORIAL_CIRCUMFERENCE
    IN  CASE k = "sw" -> Vec(0, 0, 0)
          [] k = "se" -> Vec(C, 0, 0)
          [] k = "nw" -> Vec(0, C, 0)
          [] OTHER    -> Vec(C, C, 0)

\* the vertices generate() pushed for a world corner
CornerVertices(k) ==
    {j \in 1 .. Len(returned.added) :
        returned.added[j].src = "corner" /\ returned.added[j].key = k}

\* the frustum plane tests generate() made: kind of edge, its two vectors
\* (end points, or origin and direction), the plane
PlaneTests ==
    {<<returned.tested[i].edge.kind, returned.tested[i].edge.a,
       returned.tested[i].edge.b, returned.tested[i].plane>> :
        i \in 1 .. Len(returned.tested)}

\* the 4 finite edges of the world rectangle against the 6 planes
FiniteEdgeTests ==
    {<<"Line3", RectCorner(e[1]), RectCorner(e[2]), pl>> :
        e \in {<<"sw", "se">>, <<"ne", "nw">>, <<"se", "ne">>, <<"nw", "sw">>},
        pl \in 1 .. 6}

\* rays east and west along the south and the north edge, against the 6
\* planes
InfiniteRayTests ==
    {<<"Ray", RectCorner(o), d, pl>> :
        o \in {"se", "ne"}, d \in {Vec(1, 0, 0), Vec(-1, 0, 0)},
        pl \in 1 .. 6}

\* C12: in planar mode past the 4-corner shortcut: with wrapping disabled,
\* each of the 4 world-rectangle corners is added exactly when the frustum
\* contains it, and the 4 finite world edges are tested against all 6
\* frustum planes; with wrapping enabled, no world-rectangle corner is
\* added and 4 infinite rays (east and west along the south edge, east and
\* west along the north edge) are tested instead of the finite edges;
\* every vertex added by these steps has altitude 0, and an edge/ray
\* intersection is added only when it is close to the frustum.
C12_WorldCornersAndEdgesByWrapping ==
    PastShortcut =>
        /\ ~tileWrappingEnabled =>
             /\ \A k \in WorldCornerKeys :
                  /\ (CornerVertices(k) # {}) <=> (k \in m_camera.inFrustum)
                  /\ Cardinality(CornerVertices(k)) <= 1
                  /\ \A j \in CornerVertices(k) :
                       returned.added[j].world = RectCorner(k)
             /\ PlaneTests = FiniteEdgeTests
             /\ Len(returned.tested) = Cardinality(FiniteEdgeTests)
        /\ tileWrappingEnabled =>
             /\ \A k \in WorldCornerKeys : CornerVertices(k) = {}
             /\ PlaneTests = InfiniteRayTests
             /\ Len(returned.tested) = Cardinality(InfiniteRayTests)
        /\ \A j \in 1 .. Len(returned.added) :
             /\ returned.added[j].src \in {"corner", "edge"} =>
                  returned.added[j].geo.altitude = 0
             /\ returned.added[j].src = "edge" =>
                  /\ m_camera.cut.present
                  /\ m_camera.cut.close
                  /\ m_camera.cut.at = returned.added[j].world
                  /\ m_camera.cut.plane = returned.added[j].plane

\* wrapping disabled: some but not all world corners are in the frustum and
\* are vertices, and an intersection off the ground by rounding is a
\* vertex of altitude 0
C12_Witness ==
    /\ PastShortcut
    /\ ~tileWrappingEnabled
    /\ m_camera.inFrustum \notin {{}, WorldCornerKeys}
    /\ \E k \in WorldCornerKeys : CornerVertices(k) # {}
    /\ \E j \in 1 .. Len(returned.added) :
         /\ returned.added[j].src = "edge"
         /\ returned.added[j].world[3] # 0
         /\ returned.added[j].geo.altitude = 0

====
